---- MODULE Spec2Model ----
(***************************************************************************)
(* Model of src/src/index.js: a fetch handler that validates an uploaded   *)
(* Prometheus text, parses it, keeps snapshots in a key-value store        *)
(* (METRICS_STORAGE) under a retention rule, and serves them back.         *)
(*                                                                         *)
(* Text representation.  A string that the code only compares, sorts or    *)
(* converts (storage keys, value tokens, the timestamp query parameter)    *)
(* is a sequence of UTF-16 code units.  A metric name is a sequence of     *)
(* atoms; the atoms are chosen so that no occurrence of "_bucket", "_sum", *)
(* "_count", "total" or "errors" straddles two atoms, so String.includes   *)
(* is atom membership.  A line is the result of its whitespace split: a    *)
(* flag for a leading '#', and its tokens.                                 *)
(***************************************************************************)
EXTENDS Integers, Sequences, FiniteSets, TLC

VARIABLES
    store,      \* METRICS_STORAGE: key -> stored JSON text
    now,        \* the value Date.now() returns
    pc,         \* per request slot: position inside handleRequest
    file,       \* per request slot: const metricsData of the upload in progress
    ts,         \* per request slot: const timestamp (line 20)
    keys,       \* per request slot: the listing read (line 24 / line 207)
    got,        \* per request slot: what generateUploadForm has read so far
    last,       \* the request answered last and the status of its Response
    solo,       \* history, per slot: this upload has not overlapped another
    recent,     \* history: the last two completed uploads, oldest first
    uploads,    \* history: number of completed uploads, counted up to 3
    increasing, \* history: completed timestamps strictly increase, same length
    overlapped, \* history: two uploads have been in flight together
    soloDone,   \* history: uploads completed alone since the last overlap
    noLater,    \* history: no upload was accepted since the last completion
    newest,     \* history, per slot: no upload was accepted after this one
    tracked,    \* history: the completed upload no upload has begun after, if any
    pdata,      \* parsePrometheusMetrics: the lines of its argument
    pidx,       \* parsePrometheusMetrics: index of the next line of the loop
    metrics     \* parsePrometheusMetrics: const metrics

vars == <<store, now, pc, file, ts, keys, got, last, solo, recent, uploads,
          increasing, overlapped, soloDone, noLater, newest, tracked,
          pdata, pidx, metrics>>

handlerVars == <<store, now, pc, file, ts, keys, got, last, solo, recent,
                 uploads, increasing, overlapped, soloDone, noLater, newest,
                 tracked>>

parserVars == <<pdata, pidx, metrics>>

----------------------------------------------------------------------------
(* Bounds of the model *)

MaxLines == 3       \* lines of a text given to the parser
MaxTime == 10       \* last value of the clock
SoloEnough == 1     \* uploads run alone that the retention rule is given

StartTime == 7      \* first value of the clock (keys of 1 and 2 digits occur)

----------------------------------------------------------------------------
(* JavaScript values *)

Num(n) == [t |-> "num", v |-> n]
NaN == [t |-> "nan", v |-> 0]
Undefined == [t |-> "undefined", v |-> 0]
NoLabel == "undefined"

IsDigit(c) == c >= 48 /\ c <= 57

AllDigits(s) == \A i \in 1..Len(s) : IsDigit(s[i])

RECURSIVE DecimalValue(_)
DecimalValue(s) ==
    IF Len(s) = 0 THEN 0
    ELSE 10 * DecimalValue(SubSeq(s, 1, Len(s) - 1)) + (s[Len(s)] - 48)

\* Number(value) on a token without sign, point or exponent
Number(tok) == IF Len(tok) > 0 /\ AllDigits(tok) THEN Num(DecimalValue(tok)) ELSE NaN

\* Number.prototype.toString of a non-negative integer, as `${timestamp}` does
RECURSIVE DecimalString(_)
DecimalString(n) ==
    IF n < 10 THEN <<48 + n>>
    ELSE Append(DecimalString(n \div 10), 48 + (n % 10))

----------------------------------------------------------------------------
(* parsePrometheusMetrics, lines 55-88 *)

Includes(name, atom) == \E i \in 1..Len(name) : name[i] = atom

FirstIndex(name, atom) ==
    CHOOSE i \in 1..Len(name) : name[i] = atom /\ \A j \in 1..(i - 1) : name[j] # atom

\* name.replace('_bucket', ''): the first occurrence only
ReplaceFirst(name, atom) ==
    IF Includes(name, atom)
    THEN LET i == FirstIndex(name, atom)
         IN SubSeq(name, 1, i - 1) \o SubSeq(name, i + 1, Len(name))
    ELSE name

\* name.replace(/_(sum|count)$/, ''): at the end only
StripSumCount(name) ==
    IF Len(name) > 0 /\ name[Len(name)] \in {"_sum", "_count"}
    THEN SubSeq(name, 1, Len(name) - 1)
    ELSE name

EmptyObject == <<>>

Has(obj, k) == k \in DOMAIN obj

Set(obj, k, v) == (k :> v) @@ obj

\* Object.fromEntries over the key="value" pairs: a later pair wins
RECURSIVE FromEntries(_)
FromEntries(pairs) ==
    IF Len(pairs) = 0 THEN EmptyObject
    ELSE Set(FromEntries(SubSeq(pairs, 1, Len(pairs) - 1)),
             pairs[Len(pairs)][1], pairs[Len(pairs)][2])

LabelLe(labels) == IF Has(labels, "le") THEN labels["le"] ELSE NoLabel

NewHistogram == [buckets |-> <<>>, sum |-> Undefined, count |-> Undefined]

\* fault: the entry is created anew by every line
EnsureHistogram_Resets(h, baseName) == Set(h, baseName, NewHistogram)

\* if (!metrics.histograms[baseName]) metrics.histograms[baseName] = { buckets: [] }
EnsureHistogram(h, baseName) ==
    IF Has(h, baseName) THEN h ELSE Set(h, baseName, NewHistogram)

IsBucketName(name) == Includes(name, "_bucket")

IsSumCountName(name) == Includes(name, "_sum") \/ Includes(name, "_count")

SumCountField(name) == IF Includes(name, "_sum") THEN "sum" ELSE "count"

PlainKind(name) ==
    IF Includes(name, "total") \/ Includes(name, "errors") THEN "counters" ELSE "gauges"

BucketLine(m, name, labels, value) ==
    LET baseName == ReplaceFirst(name, "_bucket")
        h == EnsureHistogram(m.histograms, baseName)
        e == h[baseName]
    IN [m EXCEPT !.histograms =
            Set(h, baseName,
                [e EXCEPT !.buckets =
                    Append(@, [le |-> LabelLe(labels), count |-> Number(value)])])]

SumCountLine(m, name, value) ==
    LET baseName == StripSumCount(name)
        h == EnsureHistogram(m.histograms, baseName)
        e == h[baseName]
    IN [m EXCEPT !.histograms =
            Set(h, baseName,
                IF SumCountField(name) = "sum"
                THEN [e EXCEPT !.sum = Number(value)]
                ELSE [e EXCEPT !.count = Number(value)])]

\* fault: a counter is entered among the gauges as well
PlainLine_Both(m, name, labels, value) ==
    LET sample == [value |-> Number(value), labels |-> labels]
    IN IF PlainKind(name) = "counters"
       THEN [m EXCEPT !.counters = Set(@, name, sample), !.gauges = Set(@, name, sample)]
       ELSE [m EXCEPT !.gauges = Set(@, name, sample)]

PlainLine(m, name, labels, value) ==
    LET sample == [value |-> Number(value), labels |-> labels]
    IN IF PlainKind(name) = "counters"
       THEN [m EXCEPT !.counters = Set(@, name, sample)]
       ELSE [m EXCEPT !.gauges = Set(@, name, sample)]

\* the guards of lines 60 and 63
Skipped(line) == line.hash \/ Len(line.toks) < 2

\* one iteration of the for loop, lines 59-86
ParseLine(m, line) ==
    IF Skipped(line) THEN m
    ELSE LET name == line.toks[1].name
             labels == FromEntries(line.toks[1].labels)
             value == line.toks[2]
         IN IF IsBucketName(name) THEN BucketLine(m, name, labels, value)
            ELSE IF IsSumCountName(name) THEN SumCountLine(m, name, value)
            ELSE PlainLine(m, name, labels, value)

EmptyMetrics == [gauges |-> EmptyObject, counters |-> EmptyObject,
                 histograms |-> EmptyObject]

RECURSIVE ParseFrom(_, _, _)
ParseFrom(m, data, i) ==
    IF i > Len(data) THEN m ELSE ParseFrom(ParseLine(m, data[i]), data, i + 1)

parsePrometheusMetrics(data) == ParseFrom(EmptyMetrics, data, 1)

\* isValidPrometheusMetrics, lines 90-96
LineLooksValid(line) ==
    line.hash \/ (Len(line.toks) = 2 /\ Len(line.toks[2]) > 0 /\ AllDigits(line.toks[2]))

isValidPrometheusMetrics(data) == \E i \in 1..Len(data) : LineLooksValid(data[i])

----------------------------------------------------------------------------
(* Inputs of the parser *)

Tok(str) ==
    CASE str = "3" -> <<51>>
      [] str = "10" -> <<49, 48>>
      [] str = "abc" -> <<97, 98, 99>>

NameTok(name, labels) == [name |-> name, labels |-> labels]

Sample(name, labels, value) ==
    [hash |-> FALSE, toks |-> <<NameTok(name, labels), Tok(value)>>]

\* "# HELP x"
CommentLine == [hash |-> TRUE, toks |-> <<>>]

\* "garbage": one token, no value
GarbageLine == [hash |-> FALSE, toks |-> <<NameTok(<<"garbage">>, <<>>)>>]

Le(v) == <<<<"le", v>>>>

PlainNames ==
    { <<"foo">>, <<"ha_connections">>, <<"requests_", "total">>,
      <<"request_", "errors">>, <<"foo", "_sum", "mary">> }

ParseLines ==
    { Sample(n, <<>>, v) : n \in PlainNames, v \in {"3", "10"} }
    \cup { Sample(<<"foo", "_sum">>, <<>>, v) : v \in {"3", "10"} }
    \cup { Sample(<<"foo", "_count">>, <<>>, v) : v \in {"3", "10"} }
    \cup { Sample(<<"foo", "_bucket">>, Le("0.5"), v) : v \in {"3", "10"} }
    \cup { Sample(<<"foo", "_bucket">>, Le("+Inf"), "10"),
           Sample(<<"ha_connections">>, <<>>, "abc"),
           CommentLine, GarbageLine }

ParseTexts == UNION { [1..n -> ParseLines] : n \in 0..MaxLines }

----------------------------------------------------------------------------
(* The parser run line by line *)

ParseInit ==
    /\ pdata \in ParseTexts
    /\ pidx = 1
    /\ metrics = EmptyMetrics

\* the branch of the loop body the next line takes
Branch(line) ==
    IF Skipped(line) THEN "skip"
    ELSE IF IsBucketName(line.toks[1].name) THEN "bucket"
    ELSE IF IsSumCountName(line.toks[1].name) THEN "sumcount"
    ELSE "plain"

ParseStep ==
    /\ metrics' = ParseLine(metrics, pdata[pidx])
    /\ pidx' = pidx + 1
    /\ UNCHANGED <<pdata, handlerVars>>

ParseSkip ==
    /\ pidx <= Len(pdata)
    /\ Branch(pdata[pidx]) = "skip"
    /\ ParseStep

ParseBucket ==
    /\ pidx <= Len(pdata)
    /\ Branch(pdata[pidx]) = "bucket"
    /\ ParseStep

ParseSumCount ==
    /\ pidx <= Len(pdata)
    /\ Branch(pdata[pidx]) = "sumcount"
    /\ ParseStep

ParsePlain ==
    /\ pidx <= Len(pdata)
    /\ Branch(pdata[pidx]) = "plain"
    /\ ParseStep

ParseNext == ParseSkip \/ ParseBucket \/ ParseSumCount \/ ParsePlain

ParseDone == pidx > Len(pdata)

----------------------------------------------------------------------------
(* METRICS_STORAGE and the strings around it *)

\* "metrics_" as UTF-16 code units
MetricsPrefix == <<109, 101, 116, 114, 105, 99, 115, 95>>

\* `metrics_${timestamp}` for a timestamp already turned into a string
StorageKey(digits) == MetricsPrefix \o digits

\* the order Array.prototype.sort() uses without a comparator: by code units
LexLess(a, b) ==
    \E i \in 1..(Len(a) + 1) :
        /\ i <= Len(b)
        /\ \A j \in 1..(i - 1) : a[j] = b[j]
        /\ (i > Len(a) \/ a[i] < b[i])

RECURSIVE SortAscending(_)
SortAscending(S) ==
    IF S = {} THEN <<>>
    ELSE LET least == CHOOSE k \in S : \A o \in S \ {k} : LexLess(k, o)
         IN <<least>> \o SortAscending(S \ {least})

Reverse(seq) == [i \in 1..Len(seq) |-> seq[Len(seq) + 1 - i]]

\* existingMetrics.keys.map(k => k.name).sort().reverse(), line 24
SortedReversed(S) == Reverse(SortAscending(S))

\* fault: the threshold off by one
RetentionApplies_AtThree(listing) == Len(listing) >= 3

\* if (keys.length >= 2), line 25
RetentionApplies(listing) == Len(listing) >= 2

\* fault: keys[0], the newest key, is deleted
Evicted_Newest(listing) == listing[1]

\* keys[1], line 26
Evicted(listing) == listing[2]

\* fault: the envelope is written without the uploaded text
JSONstringify_WithoutText(data, timestamp) ==
    << <<"data", <<>> >>, <<"timestamp", DecimalString(timestamp)>> >>

\* JSON.stringify({ data, timestamp }): the members in order, the number in decimal
JSONstringify(data, timestamp) ==
    << <<"data", data>>, <<"timestamp", DecimalString(timestamp)>> >>

Member(json, k) == json[CHOOSE i \in 1..Len(json) : json[i][1] = k][2]

\* JSON.parse of a stored text
JSONparse(json) ==
    [data |-> Member(json, "data"), timestamp |-> DecimalValue(Member(json, "timestamp"))]

Null == <<>>

StorageGet(kv, key) == IF key \in DOMAIN kv THEN kv[key] ELSE Null

StorageDelete(kv, key) == [k \in (DOMAIN kv) \ {key} |-> kv[k]]

StoragePut(kv, key, value) == (key :> value) @@ kv

----------------------------------------------------------------------------
(* Requests and responses *)

Procs == {1, 2}

NoFile == [present |-> FALSE, data |-> <<>>]

File(data) == [present |-> TRUE, data |-> data]

\* "# HELP x\nfoo_sum 10\nrequests_total 3"
TextA ==
    <<CommentLine, Sample(<<"foo", "_sum">>, <<>>, "10"),
      Sample(<<"requests_", "total">>, <<>>, "3")>>

\* "garbage"
TextBad == <<GarbageLine>>

\* the uploads tried: no file, one text the validator accepts, one it refuses
UploadFiles == {NoFile, File(TextA), File(TextBad)}

Post(f) == [method |-> "POST", file |-> f, timestamp |-> <<>>]

Get(q) == [method |-> "GET", file |-> NoFile, timestamp |-> q]

NoRequest == [method |-> "", file |-> NoFile, timestamp |-> <<>>]

Plain(status, text) ==
    [status |-> status, text |-> text, metrics |-> EmptyMetrics, shown |-> <<>>]

\* generateDashboard(metrics, timestamp): the model charted and Number(timestamp)
Dashboard(m, stamp) ==
    [status |-> 200, text |-> "dashboard", metrics |-> m, shown |-> <<stamp>>]

\* generateUploadForm's page: the timestamps it links to
Form(links) ==
    [status |-> 200, text |-> "form", metrics |-> EmptyMetrics, shown |-> links]

NoResponse == Plain(0, "")

NoFileResponse == Plain(400, "No metrics file uploaded")

InvalidResponse ==
    Plain(400, "Invalid metrics file format. Please upload a valid Prometheus metrics file.")

NotFoundResponse == Plain(404, "Metrics not found")

\* an exception that escapes handleRequest
ErrorResponse == Plain(500, "TypeError")

----------------------------------------------------------------------------------------------------------------------------------------------
(* handleRequest, lines 5-53, and generateUploadForm, lines 206-215 *)

InFlight(p) == pc[p] \in {"list", "delete", "put"}

OthersInFlight(p) == \E q \in Procs \ {p} : InFlight(q)

\* what the model keeps of an answered request: the request without the value of
\* its timestamp parameter, and the status and kind of body of the Response
Answer(request, response) ==
    [method |-> request.method, file |-> request.file,
     byTimestamp |-> request.timestamp # <<>>,
     status |-> response.status, text |-> response.text]

ParserIdle ==
    /\ pdata = <<>>
    /\ pidx = 1
    /\ metrics = EmptyMetrics

HandlerInit ==
    /\ store = EmptyObject
    /\ now = StartTime
    /\ pc = [p \in Procs |-> "idle"]
    /\ file = [p \in Procs |-> <<>>]
    /\ ts = [p \in Procs |-> 0]
    /\ keys = [p \in Procs |-> <<>>]
    /\ got = [p \in Procs |-> {}]
    /\ last = Answer(NoRequest, NoResponse)
    /\ solo = [p \in Procs |-> FALSE]
    /\ recent = <<>>
    /\ uploads = 0
    /\ increasing = TRUE
    /\ overlapped = FALSE
    /\ soloDone = 0
    /\ noLater = TRUE
    /\ newest = [p \in Procs |-> FALSE]
    /\ tracked = <<>>

Init == HandlerInit /\ ParserIdle

history == <<solo, recent, uploads, increasing, overlapped, soloDone, noLater,
             newest, tracked>>

\* Date.now() advances
Tick ==
    /\ now < MaxTime
    /\ now' = now + 1
    /\ UNCHANGED <<store, pc, file, ts, keys, got, last, history, parserVars>>

\* lines 6-12: POST without the metricsFile field
PostNoFile(p) ==
    /\ pc[p] = "idle"
    /\ last' = Answer(Post(NoFile), NoFileResponse)
    /\ UNCHANGED <<store, now, pc, file, ts, keys, got, history, parserVars>>

\* fault: the retention step runs before the text is validated
PostInvalid_AfterEviction(p, data) ==
    /\ pc[p] = "idle"
    /\ ~isValidPrometheusMetrics(data)
    /\ last' = Answer(Post(File(data)), InvalidResponse)
    /\ store' = IF RetentionApplies(SortedReversed(DOMAIN store))
                THEN StorageDelete(store, Evicted(SortedReversed(DOMAIN store)))
                ELSE store
    /\ UNCHANGED <<now, pc, file, ts, keys, got, history, parserVars>>

\* lines 6-18: POST of a text the validator refuses
PostInvalid(p, data) ==
    /\ pc[p] = "idle"
    /\ ~isValidPrometheusMetrics(data)
    /\ last' = Answer(Post(File(data)), InvalidResponse)
    /\ UNCHANGED <<store, now, pc, file, ts, keys, got, history, parserVars>>

\* lines 6-23: POST of an accepted text, up to the call of list()
PostAccept(p, data) ==
    /\ pc[p] = "idle"
    /\ isValidPrometheusMetrics(data)
    /\ file' = [file EXCEPT ![p] = data]
    /\ ts' = [ts EXCEPT ![p] = now]
    /\ pc' = [pc EXCEPT ![p] = "list"]
    /\ solo' = [q \in Procs |-> IF q = p THEN ~OthersInFlight(p)
                                ELSE solo[q] /\ ~InFlight(q)]
    /\ overlapped' = (overlapped \/ OthersInFlight(p))
    /\ soloDone' = IF OthersInFlight(p) THEN 0 ELSE soloDone
    /\ noLater' = FALSE
    /\ newest' = [q \in Procs |-> q = p]
    /\ tracked' = <<>>
    /\ UNCHANGED <<store, now, keys, got, last, recent, uploads, increasing,
                   parserVars>>

\* lines 23-25: the listing arrives
List(p) ==
    /\ pc[p] = "list"
    /\ keys' = [keys EXCEPT ![p] = SortedReversed(DOMAIN store)]
    /\ pc' = [pc EXCEPT ![p] = IF RetentionApplies(keys'[p]) THEN "delete" ELSE "put"]
    /\ UNCHANGED <<store, now, file, ts, got, last, history, parserVars>>

\* line 26
Delete(p) ==
    /\ pc[p] = "delete"
    /\ store' = StorageDelete(store, Evicted(keys[p]))
    /\ pc' = [pc EXCEPT ![p] = "put"]
    /\ UNCHANGED <<now, file, ts, keys, got, last, history, parserVars>>

\* the Response of lines 30-33
UploadResponse(data, timestamp) ==
    Dashboard(parsePrometheusMetrics(data), Num(timestamp))

SameLength(a, b) == Len(DecimalString(a)) = Len(DecimalString(b))

\* lines 28-33
Put(p) ==
    /\ pc[p] = "put"
    /\ store' = StoragePut(store, StorageKey(DecimalString(ts[p])),
                           JSONstringify(file[p], ts[p]))
    /\ last' = Answer(Post(File(file[p])), UploadResponse(file[p], ts[p]))
    /\ pc' = [pc EXCEPT ![p] = "idle"]
    /\ file' = [file EXCEPT ![p] = <<>>]
    /\ ts' = [ts EXCEPT ![p] = 0]
    /\ keys' = [keys EXCEPT ![p] = <<>>]
    /\ recent' = LET all == Append(recent, [timestamp |-> ts[p], data |-> file[p]])
                 IN IF Len(all) > 2 THEN SubSeq(all, 2, 3) ELSE all
    /\ uploads' = IF uploads < 3 THEN uploads + 1 ELSE uploads
    /\ increasing' = (increasing /\
                        (Len(recent) = 0 \/
                            (/\ recent[Len(recent)].timestamp < ts[p]
                             /\ SameLength(recent[Len(recent)].timestamp, ts[p]))))
    /\ soloDone' = IF ~solo[p] THEN 0
                   ELSE IF soloDone < SoloEnough THEN soloDone + 1 ELSE soloDone
    /\ noLater' = TRUE
    /\ newest' = [newest EXCEPT ![p] = FALSE]
    /\ tracked' = IF newest[p] THEN <<[timestamp |-> ts[p], data |-> file[p]]>>
                  ELSE tracked
    /\ solo' = [solo EXCEPT ![p] = FALSE]
    /\ UNCHANGED <<now, got, overlapped, parserVars>>

\* the timestamp parameters tried: every decimal string so far, and "09"
Queries == { DecimalString(t) : t \in StartTime..now } \cup { <<48, 57>> }

\* the Response of lines 39-47
RetrieveResponse(kv, q) ==
    LET stored == StorageGet(kv, StorageKey(q))
    IN IF stored = Null THEN NotFoundResponse
       ELSE Dashboard(parsePrometheusMetrics(JSONparse(stored).data), Number(q))

\* lines 36-47: GET ?timestamp=q
Retrieve(p, q) ==
    /\ pc[p] = "idle"
    /\ last' = Answer(Get(q), RetrieveResponse(store, q))
    /\ UNCHANGED <<store, now, pc, file, ts, keys, got, history, parserVars>>

\* lines 36-50 and 207: GET / lists the keys
FormList(p) ==
    /\ pc[p] = "idle"
    /\ keys' = [keys EXCEPT ![p] = SortAscending(DOMAIN store)]
    /\ got' = [got EXCEPT ![p] = {}]
    /\ pc' = [pc EXCEPT ![p] = "form"]
    /\ UNCHANGED <<store, now, file, ts, last, history, parserVars>>

Range(seq) == { seq[i] : i \in 1..Len(seq) }

Pending(p) == Range(keys[p]) \ { g.key : g \in got[p] }

\* lines 210-212 for one listed key that is still stored
FormGet(p, k) ==
    /\ pc[p] = "form"
    /\ k \in Pending(p)
    /\ StorageGet(store, k) # Null
    /\ got' = [got EXCEPT ![p] =
                  @ \cup {[key |-> k, timestamp |-> JSONparse(StorageGet(store, k)).timestamp]}]
    /\ UNCHANGED <<store, now, pc, file, ts, keys, last, history, parserVars>>

\* lines 210-211 for a listed key that is gone: get() gives null, JSON.parse(null)
\* is null, and destructuring null throws
FormGetMissing(p, k) ==
    /\ pc[p] = "form"
    /\ k \in Pending(p)
    /\ StorageGet(store, k) = Null
    /\ last' = Answer(Get(<<>>), ErrorResponse)
    /\ pc' = [pc EXCEPT ![p] = "idle"]
    /\ keys' = [keys EXCEPT ![p] = <<>>]
    /\ got' = [got EXCEPT ![p] = {}]
    /\ UNCHANGED <<store, now, file, ts, history, parserVars>>

RECURSIVE SortByTimestampDescending(_)
SortByTimestampDescending(S) ==
    IF S = {} THEN <<>>
    ELSE LET first == CHOOSE g \in S : \A o \in S : o.timestamp <= g.timestamp
         IN <<first>> \o SortByTimestampDescending(S \ {first})

Slice2(seq) == SubSeq(seq, 1, IF Len(seq) < 2 THEN Len(seq) ELSE 2)

\* sortedMetrics, line 215, as the page shows it
SortedMetrics(read) ==
    LET top == Slice2(SortByTimestampDescending(read))
    IN [i \in 1..Len(top) |-> Num(top[i].timestamp)]

\* lines 215-262
FormRender(p) ==
    /\ pc[p] = "form"
    /\ Pending(p) = {}
    /\ last' = Answer(Get(<<>>), Form(SortedMetrics(got[p])))
    /\ pc' = [pc EXCEPT ![p] = "idle"]
    /\ keys' = [keys EXCEPT ![p] = <<>>]
    /\ got' = [got EXCEPT ![p] = {}]
    /\ UNCHANGED <<store, now, file, ts, history, parserVars>>

Next ==
    \/ Tick
    \/ \E p \in Procs : PostNoFile(p)
    \/ \E p \in Procs : \E f \in UploadFiles : f.present /\ PostInvalid(p, f.data)
    \/ \E p \in Procs : \E f \in UploadFiles : f.present /\ PostAccept(p, f.data)
    \/ \E p \in Procs : List(p)
    \/ \E p \in Procs : Delete(p)
    \/ \E p \in Procs : Put(p)
    \/ \E p \in Procs : \E q \in Queries : Retrieve(p, q)
    \/ \E p \in Procs : FormList(p)
    \/ \E p \in Procs : \E k \in Pending(p) : FormGet(p, k)
    \/ \E p \in Procs : \E k \in Pending(p) : FormGetMissing(p, k)
    \/ \E p \in Procs : FormRender(p)

Spec == Init /\ [][Next]_vars

ParseSpecInit == HandlerInit /\ ParseInit

ParseSpec == ParseSpecInit /\ [][ParseNext]_vars

----------------------------------------------------------------------------
(* Claims about the snapshot store, checked under Spec *)

StoredCount == Cardinality(DOMAIN store)

NoneInFlight == \A p \in Procs : ~InFlight(p)

\* C1: while no two uploads have been in flight together, the store holds at
\* most 2 entries in every state, the states between an upload's delete and
\* its put included.
C1_AtMostTwoSequential == ~overlapped => StoredCount <= 2

\* a third upload, run alone, stands between its delete and its put
C1_Witness ==
    /\ ~overlapped
    /\ uploads >= 2
    /\ \E p \in Procs : pc[p] = "put" /\ Len(keys[p]) = 2 /\ StoredCount = 1

\* the store that holds exactly the given uploads
SnapshotsOf(ups) ==
    [k \in { StorageKey(DecimalString(ups[i].timestamp)) : i \in 1..Len(ups) } |->
        LET u == ups[CHOOSE i \in 1..Len(ups) :
                        StorageKey(DecimalString(ups[i].timestamp)) = k]
        IN JSONstringify(u.data, u.timestamp)]

\* C2: after n uploads that never overlapped, with strictly increasing
\* timestamps of one decimal length, the store holds exactly the min(n, 2)
\* uploads completed last.
C2_KeepsTwoMostRecent ==
    (~overlapped /\ increasing /\ NoneInFlight) => store = SnapshotsOf(recent)

\* three such uploads have completed: the 2nd and the 3rd are stored
C2_Witness ==
    /\ ~overlapped /\ increasing /\ NoneInFlight
    /\ uploads = 3
    /\ StoredCount = 2
    /\ store = SnapshotsOf(recent)

Rejected(a) ==
    /\ a.method = "POST"
    /\ (~a.file.present \/ ~isValidPrometheusMetrics(a.file.data))

RejectionOf(a) ==
    IF a.file.present THEN InvalidResponse ELSE NoFileResponse

\* C3: the step that answers a rejected POST answers 400 with the fixed
\* message, changes no key and no value of the store, and starts no list,
\* delete or put.
C3_RejectedPostLeavesStore ==
    [][(last' # last /\ Rejected(last'))
          => /\ last'.status = 400
             /\ last'.text = RejectionOf(last').text
             /\ store' = store
             /\ pc' = pc
             /\ keys' = keys]_vars

\* a text was refused while two snapshots were stored
C3_Witness ==
    /\ Rejected(last)
    /\ last.file.present
    /\ last.status = 400
    /\ StoredCount = 2

LastUpload == recent[Len(recent)]

\* GET ?timestamp=t answers what the upload of (x, t) answered
RoundTrips(u) ==
    RetrieveResponse(store, DecimalString(u.timestamp))
        = UploadResponse(u.data, u.timestamp)

\* C4 as stated: once the upload of x at t has completed, and as long as no
\* upload has begun after that upload began, GET ?timestamp=t finds
\* metrics_t, reads x and renders the model the upload rendered.
C4_RoundTripBeforeLaterUpload ==
    Len(tracked) > 0 => RoundTrips(tracked[1])

\* C4 amended: the same for an upload that completes with no other upload in
\* flight, until the next upload begins.
C4_RoundTripWhenQuiet ==
    (uploads > 0 /\ noLater /\ NoneInFlight) => RoundTrips(LastUpload)

\* uploads have overlapped, all is quiet now, and a retrieval was answered 200
C4_Witness ==
    /\ uploads > 0 /\ noLater /\ NoneInFlight
    /\ overlapped
    /\ StoredCount >= 2
    /\ last.method = "GET" /\ last.byTimestamp /\ last.status = 200

\* C7: once uploads run alone again, they bring the store back to at most 2
\* entries: after SoloEnough uploads that each ran from start to completion
\* with no other upload in flight, at most 2 entries are stored.
C7_ExcessIsBrief == soloDone >= SoloEnough => StoredCount <= 2

\* C8: the key a retention step is about to delete is the least key of the
\* listing it read.
C8_EvictsOldest ==
    \A p \in Procs :
        pc[p] = "delete" =>
            \A k \in Range(keys[p]) :
                k = Evicted(keys[p]) \/ LexLess(Evicted(keys[p]), k)

\* C10: every GET / is answered with the upload form.
C10_FormAlwaysRenders ==
    (last.method = "GET" /\ ~last.byTimestamp) =>
        (last.status = 200 /\ last.text = "form")

----------------------------------------------------------------------------
(* Claims about parsePrometheusMetrics, checked under ParseSpec *)

Gauges == DOMAIN metrics.gauges

Counters == DOMAIN metrics.counters

Histograms == DOMAIN metrics.histograms

NotSkipped(line) == ~Skipped(line)

\* the lines the loop has passed that have a name token and a value token
Processed == SelectSeq(SubSeq(pdata, 1, pidx - 1), NotSkipped)

NameOf(line) == line.toks[1].name

EndsWith(name, atom) == Len(name) > 0 /\ name[Len(name)] = atom

DropLast(name) == SubSeq(name, 1, Len(name) - 1)

\* C5 as stated: no name is a key of two of the three mappings.
C5_OneMappingPerName ==
    /\ Gauges \cap Counters = {}
    /\ Gauges \cap Histograms = {}
    /\ Counters \cap Histograms = {}

IsHistogramLine(line) == IsBucketName(NameOf(line)) \/ IsSumCountName(NameOf(line))

BaseOf(line) ==
    IF IsBucketName(NameOf(line)) THEN ReplaceFirst(NameOf(line), "_bucket")
    ELSE StripSumCount(NameOf(line))

\* C5 amended: no name is a key of both gauges and counters; a histogram key
\* is also a gauge or counter key exactly when the text has both a plain
\* sample of that name and a histogram sample with that base name.
C5_GaugesCountersDisjoint ==
    /\ Gauges \cap Counters = {}
    /\ \A k \in Gauges \cup Counters \cup Histograms :
          (k \in Histograms /\ k \in Gauges \cup Counters)
          <=> (/\ \E i \in 1..Len(Processed) :
                     ~IsHistogramLine(Processed[i]) /\ NameOf(Processed[i]) = k
               /\ \E i \in 1..Len(Processed) :
                     IsHistogramLine(Processed[i]) /\ BaseOf(Processed[i]) = k)

\* "foo" is a gauge and a histogram at once, next to a counter
C5_Witness ==
    /\ ParseDone
    /\ <<"foo">> \in Gauges \cap Histograms
    /\ Counters # {}

SuffixFree(b) ==
    ~Includes(b, "_bucket") /\ ~Includes(b, "_sum") /\ ~Includes(b, "_count")

\* the three lines of one histogram, in some order
IsTriple(lines, b) ==
    /\ Len(lines) = 3
    /\ \E i \in 1..3 : NameOf(lines[i]) = b \o <<"_bucket">>
    /\ \E i \in 1..3 : NameOf(lines[i]) = b \o <<"_sum">>
    /\ \E i \in 1..3 : NameOf(lines[i]) = b \o <<"_count">>

TheLine(lines, name) == lines[CHOOSE i \in 1..Len(lines) : NameOf(lines[i]) = name]

TripleEntry(lines, b) ==
    LET bucket == TheLine(lines, b \o <<"_bucket">>)
    IN [buckets |-> << [le |-> LabelLe(FromEntries(bucket.toks[1].labels)),
                        count |-> Number(bucket.toks[2])] >>,
        sum |-> Number(TheLine(lines, b \o <<"_sum">>).toks[2]),
        count |-> Number(TheLine(lines, b \o <<"_count">>).toks[2])]

\* C6: a text whose samples are foo_bucket{le="L"} c, foo_sum s and
\* foo_count n, in whatever order, parses to the one histogram entry
\* buckets = [{le: L, count: c}], sum = s, count = n for foo.
C6_TripleAnyOrder ==
    ParseDone =>
        \A b \in { DropLast(NameOf(Processed[i])) : i \in 1..Len(Processed) } :
            (SuffixFree(b) /\ IsTriple(Processed, b))
                => /\ Has(metrics.histograms, b)
                   /\ metrics.histograms[b] = TripleEntry(Processed, b)

\* the order foo_count, foo_sum, foo_bucket: the entry is created by the
\* count line and the bucket arrives last
C6_Witness ==
    /\ ParseDone
    /\ IsTriple(Processed, <<"foo">>)
    /\ NameOf(Processed[1]) = <<"foo", "_count">>
    /\ NameOf(Processed[3]) = <<"foo", "_bucket">>
    /\ Processed[1].toks[2] # Processed[2].toks[2]

\* the dispatch C9 describes: by the suffix the name ends in
SuffixLine(m, line) ==
    IF Skipped(line) THEN m
    ELSE LET name == NameOf(line)
             labels == FromEntries(line.toks[1].labels)
             value == Number(line.toks[2])
             h == EnsureHistogram(m.histograms, DropLast(name))
             e == h[DropLast(name)]
         IN IF EndsWith(name, "_bucket")
            THEN [m EXCEPT !.histograms =
                    Set(h, DropLast(name),
                        [e EXCEPT !.buckets =
                            Append(@, [le |-> LabelLe(labels), count |-> value])])]
            ELSE IF EndsWith(name, "_sum")
            THEN [m EXCEPT !.histograms = Set(h, DropLast(name), [e EXCEPT !.sum = value])]
            ELSE IF EndsWith(name, "_count")
            THEN [m EXCEPT !.histograms = Set(h, DropLast(name), [e EXCEPT !.count = value])]
            ELSE IF Includes(name, "total") \/ Includes(name, "errors")
            THEN [m EXCEPT !.counters = Set(@, name, [value |-> value, labels |-> labels])]
            ELSE [m EXCEPT !.gauges = Set(@, name, [value |-> value, labels |-> labels])]

RECURSIVE SuffixParse(_, _, _, _)
SuffixParse(m, data, i, n) ==
    IF i > n THEN m ELSE SuffixParse(SuffixLine(m, data[i]), data, i + 1, n)

\* C9: each line with a name and a value goes to the mapping its suffix
\* names: a histogram for a name that ends in _bucket, _sum or _count, a
\* counter or a gauge under the full name for every other name.
C9_DispatchBySuffix == metrics = SuffixParse(EmptyMetrics, pdata, 1, pidx - 1)

====
